---- MODULE Spec2Model ----
(***************************************************************************)
(* DocuQuery frontend: the App shell, the DocumentList registry, the       *)
(* DocumentUpload coordinator, the ChatInterface session and the HTTP      *)
(* client of api.js, as a state machine.                                   *)
(*                                                                         *)
(* React state is the committed state between two events: every handler   *)
(* runs to its next await, and the render and effects it causes are part   *)
(* of the same step.  A component that is not rendered holds the values    *)
(* its useState calls give it at the next mount.  Every HTTP call is a     *)
(* record that stays in flight until its continuation runs.                *)
(*                                                                         *)
(* Text is a sequence of tokens; typed text is a sequence of one-character *)
(* tokens so that trim() is computed, not assumed.                         *)
(***************************************************************************)
EXTENDS Integers, Sequences, FiniteSets, TLC

\* ------------------------------------------------------------ bounds ----
MaxInitDocs == 2      \* documents the backend may hold before the app starts
MaxBatches  == 2      \* onDrop calls in one behaviour
MaxFiles    == 2      \* files per dropped batch
MaxDropped  == 2      \* files of the batches whose progress is not yet reset
MaxMessages == 4      \* messages a session holds before typing stops
MaxInFlight == 2      \* list fetches / delete calls in flight at once
MaxAlerts   == 1      \* delete rejections injected in one behaviour
MaxTimers   == 1      \* pending close timers of the settings modal

\* ------------------------------------------------------------ values ----
Null    == 0
NullDoc == [id |-> Null]
None    == [kind |-> "none"]

Tabs      == {"documents", "upload", "chat"}

\* The value of activeTab once an error thrown in an effect has made React
\* unmount the root: there is no App instance left, hence no tab.
Crashed   == "crashed"

FileNames == <<"a.pdf", "b.pdf", "c.pdf", "d.pdf">>

\* What can be typed into the question box: nothing, whitespace only, a
\* question, a question with whitespace around it.
Inputs == {<<>>, <<" ">>, <<"a">>, <<" ", "a", " ">>}

Doc(i, n) == [id |-> i, name |-> n]

InitDocs(k) == [j \in 1..k |-> Doc(j, "a.pdf")]

\* String.prototype.trim: strip leading and trailing whitespace.
RECURSIVE TrimLeft(_)
TrimLeft(s) ==
  IF s = <<>> THEN s
  ELSE IF Head(s) = " " THEN TrimLeft(Tail(s)) ELSE s

RECURSIVE TrimRight(_)
TrimRight(s) ==
  IF s = <<>> THEN s
  ELSE IF s[Len(s)] = " " THEN TrimRight(SubSeq(s, 1, Len(s) - 1)) ELSE s

Trim(s) == TrimRight(TrimLeft(s))

\* d.filter(doc => doc.id !== docId)
WithoutId(d, docId) ==
  LET Keep(doc) == doc.id # docId
  IN  SelectSeq(d, Keep)

RemoveAt(s, k) == SubSeq(s, 1, k - 1) \o SubSeq(s, k + 1, Len(s))

ReplaceAt(s, k, v) == [s EXCEPT ![k] = v]

\* --------------------------------------------------------- variables ----
VARIABLES
  activeTab, selectedDoc, refreshTrigger,        \* App
  lsSettings,                                    \* localStorage 'apiSettings'
  settingsOpen, apiBaseUrl, apiKey, model,       \* SettingsModal
  saved, closeTimers,
  messages, input, loading, queryReqs,           \* ChatInterface
  docs, docsLoading, selectedId, listReqs,       \* DocumentList
  delReqs, alerts,
  uploading, progress, progressOwner, batches,   \* DocumentUpload
  upReqs,
  backendDocs, nextId                            \* backend

appVars     == <<activeTab, selectedDoc, refreshTrigger>>
storeVars   == <<lsSettings>>
modalVars   == <<settingsOpen, apiBaseUrl, apiKey, model, saved, closeTimers>>
chatVars    == <<messages, input, loading, queryReqs>>
listVars    == <<docs, docsLoading, selectedId, listReqs>>
deleteVars  == <<delReqs, alerts>>
uploadVars  == <<uploading, progress, progressOwner, batches, upReqs>>
backendVars == <<backendDocs, nextId>>

vars == <<appVars, storeVars, modalVars, chatVars, listVars, deleteVars,
          uploadVars, backendVars>>

\* ------------------------------------------------------ localStorage ----
Absent  == [kind |-> "absent"]
Corrupt == [kind |-> "corrupt"]

NullSettings == [kind |-> "null"]

Settings(u, k, m) == [apiBaseUrl |-> u, apiKey |-> k, model |-> m]

\* JSON.stringify of a settings object, as the stored item.
JSONstringify(v) == [kind |-> "json", value |-> v]

\* JSON.parse succeeds exactly on what JSON.stringify wrote.
ParseThrows(item) == item.kind = "corrupt"
JSONparse(item)   == item.value

\* What the SettingsModal effect does with the stored item: nothing when
\* there is none, a throw out of the effect when JSON.parse throws, and
\* otherwise setX(settings.x || '') for the three fields.
EffectThrows(item) == item # Absent /\ ParseThrows(item)

EmptyFields == Settings(<<>>, <<>>, <<>>)

LoadedFields(item, fields) ==
  IF item = Absent THEN fields
  ELSE Settings(JSONparse(item).apiBaseUrl, JSONparse(item).apiKey,
                JSONparse(item).model)

\* ------------------------------------------------------ mount status ----
ListMounted(tab)      == tab = "documents"
UploadMounted(tab)    == tab = "upload"
ChatMounted(tab, sel) == tab = "chat" \/ sel # NullDoc

\* ------------------------------------------------------------- api.js ---
ListReq == [resp |-> None]

queryDocumentSendsEmpty(question, docId, conversationId, apiSettings) ==
  LET payload == [question |-> question, doc_id |-> docId,
                  conversation_id |-> conversationId, stream |-> FALSE]
  IN  IF apiSettings = NullSettings THEN payload
      ELSE payload @@ [api_base_url |-> apiSettings.apiBaseUrl,
                       api_key |-> apiSettings.apiKey,
                       model |-> apiSettings.model]

\* The body of POST /query: the three overrides are added only for the
\* non-empty fields of a non-null apiSettings.
queryDocument(question, docId, conversationId, apiSettings) ==
  LET payload == [question |-> question, doc_id |-> docId,
                  conversation_id |-> conversationId, stream |-> FALSE]
      url == IF apiSettings # NullSettings /\ apiSettings.apiBaseUrl # <<>>
             THEN [api_base_url |-> apiSettings.apiBaseUrl] ELSE <<>>
      key == IF apiSettings # NullSettings /\ apiSettings.apiKey # <<>>
             THEN [api_key |-> apiSettings.apiKey] ELSE <<>>
      mdl == IF apiSettings # NullSettings /\ apiSettings.model # <<>>
             THEN [model |-> apiSettings.model] ELSE <<>>
  IN  payload @@ url @@ key @@ mdl

\* --------------------------------------------------------------- Init ---
\* The app starts on the Documents tab: DocumentList is mounted and its
\* effect has issued the first list fetch; the SettingsModal is mounted,
\* closed, and its effect has run once.  With an unparseable stored item
\* that effect throws and the app starts unmounted.
Init ==
  /\ lsSettings \in {Absent, Corrupt,
                     JSONstringify(Settings(<<>>, <<"k">>, <<>>))}
  /\ activeTab = IF EffectThrows(lsSettings) THEN Crashed ELSE "documents"
  /\ selectedDoc = NullDoc
  /\ refreshTrigger = 0
  /\ settingsOpen = FALSE
  /\ apiBaseUrl = IF EffectThrows(lsSettings) THEN <<>>
                  ELSE LoadedFields(lsSettings, EmptyFields).apiBaseUrl
  /\ apiKey = IF EffectThrows(lsSettings) THEN <<>>
              ELSE LoadedFields(lsSettings, EmptyFields).apiKey
  /\ model = IF EffectThrows(lsSettings) THEN <<>>
             ELSE LoadedFields(lsSettings, EmptyFields).model
  /\ saved = FALSE
  /\ closeTimers = 0
  /\ messages = <<>>
  /\ input = <<>>
  /\ loading = FALSE
  /\ queryReqs = <<>>
  /\ docs = <<>>
  /\ docsLoading = TRUE
  /\ selectedId = Null
  /\ listReqs = IF EffectThrows(lsSettings) THEN <<>> ELSE <<ListReq>>
  /\ delReqs = <<>>
  /\ alerts = 0
  /\ uploading = FALSE
  /\ progress = <<>>
  /\ progressOwner = Null
  /\ batches = <<>>
  /\ upReqs = <<>>
  /\ \E k \in 0..MaxInitDocs :
       /\ backendDocs = InitDocs(k)
       /\ nextId = k + 1

\* ------------------------------------------- render after an App update -
\* DocumentList is rendered only on the Documents tab.  Mounting it runs
\* loadDocs; a changed refreshTrigger on a mounted list runs loadDocs
\* again.  Responses to the fetches of an unmounted list only call setState
\* on the unmounted instance, so those fetches are dropped with it.  A
\* delete call of an unmounted list still reaches the backend and its
\* continuation still calls onSelectDocument, so it stays, marked stale.
Stale(reqs) == [k \in 1..Len(reqs) |-> [reqs[k] EXCEPT !.live = FALSE]]

RenderDocumentList(tab, trigger) ==
  IF ListMounted(tab)
  THEN IF ListMounted(activeTab)
       THEN /\ UNCHANGED <<docs, selectedId, delReqs>>
            /\ IF trigger # refreshTrigger
               THEN /\ docsLoading' = TRUE
                    /\ listReqs' = Append(listReqs, ListReq)
               ELSE UNCHANGED <<docsLoading, listReqs>>
       ELSE /\ docs' = <<>>
            /\ selectedId' = Null
            /\ docsLoading' = TRUE
            /\ listReqs' = <<ListReq>>
            /\ UNCHANGED delReqs
  ELSE /\ docs' = <<>>
       /\ selectedId' = Null
       /\ docsLoading' = TRUE
       /\ listReqs' = <<>>
       /\ delReqs' = Stale(delReqs)

\* DocumentUpload is rendered only on the Upload tab.  A running onDrop
\* loop of an unmounted instance keeps uploading and keeps calling
\* onUploadSuccess; its setProgress / setUploading calls do nothing.
RenderDocumentUpload(tab) ==
  IF UploadMounted(tab) /\ UploadMounted(activeTab)
  THEN UNCHANGED uploadVars
  ELSE /\ uploading' = FALSE
       /\ progress' = <<>>
       /\ progressOwner' = Null
       /\ batches' = Stale(batches)
       /\ UNCHANGED upReqs

RenderChatInterfaceKeyed(tab, sel) ==
  IF /\ ChatMounted(tab, sel)
     /\ ChatMounted(activeTab, selectedDoc)
     /\ sel = selectedDoc
  THEN UNCHANGED chatVars
  ELSE /\ messages' = <<>>
       /\ input' = <<>>
       /\ loading' = FALSE
       /\ queryReqs' = <<>>

\* ChatInterface is rendered when the Chat tab is active or a document is
\* selected; it is one element without a key, so it keeps its state while
\* it stays rendered, whatever the document prop becomes.
RenderChatInterface(tab, sel) ==
  IF ChatMounted(tab, sel) /\ ChatMounted(activeTab, selectedDoc)
  THEN UNCHANGED chatVars
  ELSE /\ messages' = <<>>
       /\ input' = <<>>
       /\ loading' = FALSE
       /\ queryReqs' = <<>>

\* ---------------------------------------------------------------- App ---
\* onClick={() => setActiveTab(tab.id)}
SetActiveTab(tab) ==
  /\ activeTab \in Tabs
  /\ tab # activeTab
  /\ activeTab' = tab
  /\ RenderDocumentList(tab, refreshTrigger)
  /\ RenderDocumentUpload(tab)
  /\ RenderChatInterface(tab, selectedDoc)
  /\ UNCHANGED <<selectedDoc, refreshTrigger, lsSettings, alerts,
                 backendVars>>
  /\ UNCHANGED modalVars

\* -------------------------------------------------------- SettingsModal -
\* What can be typed into a settings field whose value would be v: nothing,
\* whitespace only, the value with whitespace before it.
FieldTexts(v) == {<<>>, <<" ">>, <<" ", v>>}

\* An error thrown by the effect of SettingsModal is caught by no error
\* boundary: React unmounts the whole tree.  Calls in flight stay in
\* flight, owned by unmounted instances.
Crash ==
  /\ activeTab' = Crashed
  /\ selectedDoc' = NullDoc
  /\ refreshTrigger' = 0
  /\ settingsOpen' = FALSE
  /\ apiBaseUrl' = <<>>
  /\ apiKey' = <<>>
  /\ model' = <<>>
  /\ saved' = FALSE
  /\ closeTimers' = 0
  /\ RenderDocumentList(Crashed, refreshTrigger)
  /\ RenderDocumentUpload(Crashed)
  /\ RenderChatInterface(Crashed, NullDoc)
  /\ UNCHANGED <<lsSettings, alerts, backendVars>>

\* useEffect(..., [isOpen]): runs after every render in which isOpen has
\* changed, on opening and on closing alike.
IsOpenEffect ==
  LET fields == LoadedFields(lsSettings, Settings(apiBaseUrl, apiKey, model))
  IN  /\ apiBaseUrl' = fields.apiBaseUrl
      /\ apiKey' = fields.apiKey
      /\ model' = fields.model

\* onClick={() => setSettingsOpen(true)}; the open modal covers the button.
OpenSettings ==
  /\ activeTab \in Tabs
  /\ ~settingsOpen
  /\ IF EffectThrows(lsSettings) THEN Crash
     ELSE /\ settingsOpen' = TRUE
          /\ IsOpenEffect
          /\ UNCHANGED <<saved, closeTimers, appVars, storeVars, chatVars,
                         listVars, deleteVars, uploadVars, backendVars>>

\* onClose from the X and Cancel buttons.
CloseSettings ==
  /\ settingsOpen
  /\ IF EffectThrows(lsSettings) THEN Crash
     ELSE /\ settingsOpen' = FALSE
          /\ IsOpenEffect
          /\ UNCHANGED <<saved, closeTimers, appVars, storeVars, chatVars,
                         listVars, deleteVars, uploadVars, backendVars>>

\* onChange={(e) => setApiBaseUrl(e.target.value)}
SetApiBaseUrl(text) ==
  /\ settingsOpen
  /\ text \in FieldTexts("u")
  /\ text # apiBaseUrl
  /\ apiBaseUrl' = text
  /\ UNCHANGED <<settingsOpen, apiKey, model, saved, closeTimers, appVars,
                 storeVars, chatVars, listVars, deleteVars, uploadVars,
                 backendVars>>

\* onChange={(e) => setApiKey(e.target.value)}
SetApiKey(text) ==
  /\ settingsOpen
  /\ text \in FieldTexts("k")
  /\ text # apiKey
  /\ apiKey' = text
  /\ UNCHANGED <<settingsOpen, apiBaseUrl, model, saved, closeTimers, appVars,
                 storeVars, chatVars, listVars, deleteVars, uploadVars,
                 backendVars>>

\* onChange={(e) => setModel(e.target.value)}
SetModel(text) ==
  /\ settingsOpen
  /\ text \in FieldTexts("m")
  /\ text # model
  /\ model' = text
  /\ UNCHANGED <<settingsOpen, apiBaseUrl, apiKey, saved, closeTimers, appVars,
                 storeVars, chatVars, listVars, deleteVars, uploadVars,
                 backendVars>>

StoredItemUntrimmed(u, k, m) ==
  IF u # <<>> \/ k # <<>> \/ m # <<>>
  THEN JSONstringify(Settings(u, k, m)) ELSE Absent

\* What handleSave leaves under 'apiSettings': the trimmed triple by
\* setItem when a trimmed field is non-empty, nothing (removeItem) otherwise.
StoredItem(u, k, m) ==
  IF Trim(u) # <<>> \/ Trim(k) # <<>> \/ Trim(m) # <<>>
  THEN JSONstringify(Settings(Trim(u), Trim(k), Trim(m))) ELSE Absent

HandleSaveLive ==
  /\ settingsOpen
  /\ ~saved
  /\ closeTimers < MaxTimers
  /\ lsSettings' = StoredItem(apiBaseUrl, apiKey, model)
  /\ queryReqs' =
       [k \in 1..Len(queryReqs) |->
          queryDocument(queryReqs[k].question, queryReqs[k].doc_id,
                        queryReqs[k].conversation_id,
                        IF lsSettings' # Absent THEN JSONparse(lsSettings')
                        ELSE NullSettings)]
  /\ saved' = TRUE
  /\ closeTimers' = closeTimers + 1
  /\ UNCHANGED <<settingsOpen, apiBaseUrl, apiKey, model, appVars, messages,
                 input, loading, listVars, deleteVars, uploadVars,
                 backendVars>>

\* handleSave; the Save button is disabled while saved is shown.
HandleSave ==
  /\ settingsOpen
  /\ ~saved
  /\ closeTimers < MaxTimers
  /\ lsSettings' = StoredItem(apiBaseUrl, apiKey, model)
  /\ saved' = TRUE
  /\ closeTimers' = closeTimers + 1
  /\ UNCHANGED <<settingsOpen, apiBaseUrl, apiKey, model, appVars, chatVars,
                 listVars, deleteVars, uploadVars, backendVars>>

\* handleClear
HandleClear ==
  /\ settingsOpen
  /\ closeTimers < MaxTimers
  /\ apiBaseUrl' = <<>>
  /\ apiKey' = <<>>
  /\ model' = <<>>
  /\ lsSettings' = Absent
  /\ saved' = TRUE
  /\ closeTimers' = closeTimers + 1
  /\ UNCHANGED <<settingsOpen, appVars, chatVars, listVars, deleteVars,
                 uploadVars, backendVars>>

\* setTimeout(() => { setSaved(false); onClose(); }, 1500)
CloseTimer ==
  /\ closeTimers > 0
  /\ IF settingsOpen /\ EffectThrows(lsSettings) THEN Crash
     ELSE /\ saved' = FALSE
          /\ closeTimers' = closeTimers - 1
          /\ settingsOpen' = FALSE
          /\ IF settingsOpen THEN IsOpenEffect
             ELSE UNCHANGED <<apiBaseUrl, apiKey, model>>
          /\ UNCHANGED <<appVars, storeVars, chatVars, listVars, deleteVars,
                         uploadVars, backendVars>>

\* The stored item is shared with whatever else writes the origin's
\* localStorage: it can become unparseable, or a record with empty fields.
ExternalItems == {Corrupt, JSONstringify(EmptyFields)}

StorageWritten(item) ==
  /\ activeTab \in Tabs
  /\ item \in ExternalItems
  /\ item # lsSettings
  /\ lsSettings' = item
  /\ UNCHANGED <<appVars, modalVars, chatVars, listVars, deleteVars,
                 uploadVars, backendVars>>

\* --------------------------------------------------------- DocumentList -
\* GET /documents: the backend computes the listing when it handles the
\* request; the response is delivered later.
BackendList(k) ==
  /\ k \in 1..Len(listReqs)
  /\ listReqs[k].resp = None
  /\ listReqs' = ReplaceAt(listReqs, k,
       [resp |-> [kind |-> "ok", documents |-> backendDocs]])
  /\ UNCHANGED <<appVars, storeVars, chatVars, docs, docsLoading, selectedId,
                 deleteVars, uploadVars, backendVars>>
  /\ UNCHANGED modalVars

\* GET /documents failing: no listing reaches the client.
BackendListFail(k) ==
  /\ k \in 1..Len(listReqs)
  /\ listReqs[k].resp = None
  /\ listReqs' = ReplaceAt(listReqs, k, [resp |-> [kind |-> "err"]])
  /\ UNCHANGED <<appVars, storeVars, chatVars, docs, docsLoading, selectedId,
                 deleteVars, uploadVars, backendVars>>
  /\ UNCHANGED modalVars

DocsAfterFetchCleared(prev, resp) ==
  IF resp.kind = "ok" THEN resp.documents ELSE <<>>

\* setDocs(data.documents) in the try block; the catch block only logs.
DocsAfterFetch(prev, resp) ==
  IF resp.kind = "ok" THEN resp.documents ELSE prev

\* loadDocs after the await: setDocs(data.documents) or the catch, then
\* finally setLoading(false).
LoadDocsResolve(k) ==
  /\ k \in 1..Len(listReqs)
  /\ listReqs[k].resp # None
  /\ docs' = DocsAfterFetch(docs, listReqs[k].resp)
  /\ docsLoading' = FALSE
  /\ listReqs' = RemoveAt(listReqs, k)
  /\ UNCHANGED <<appVars, storeVars, chatVars, selectedId, deleteVars,
                 uploadVars, backendVars>>
  /\ UNCHANGED modalVars

\* handleSelect(doc), with App.handleDocSelect as onSelectDocument.  The
\* rows are rendered only when the list is not loading.
HandleSelect(k) ==
  /\ ListMounted(activeTab)
  /\ ~docsLoading
  /\ k \in 1..Len(docs)
  /\ selectedDoc' = docs[k]
  /\ activeTab' = "chat"
  /\ RenderDocumentList("chat", refreshTrigger)
  /\ RenderDocumentUpload("chat")
  /\ RenderChatInterface("chat", docs[k])
  /\ UNCHANGED <<refreshTrigger, lsSettings, alerts, backendVars>>
  /\ UNCHANGED modalVars

DocsOnDeleteRequestOptimistic(d, docId) == WithoutId(d, docId)

\* Nothing before `await deleteDocument(docId)` touches the listing.
DocsOnDeleteRequest(d, docId) == d

\* handleDelete(docId) up to the await, the user having confirmed.  The
\* continuation reads selectedId from the closure of the render in which
\* the handler was created, so the call keeps that value.
HandleDelete(k) ==
  /\ ListMounted(activeTab)
  /\ ~docsLoading
  /\ k \in 1..Len(docs)
  /\ Len(delReqs) < MaxInFlight
  /\ alerts < MaxAlerts
  /\ delReqs' = Append(delReqs, [docId |-> docs[k].id,
                                 selectedId |-> selectedId,
                                 live |-> TRUE, resp |-> None])
  /\ docs' = DocsOnDeleteRequest(docs, docs[k].id)
  /\ UNCHANGED <<appVars, storeVars, chatVars, docsLoading, selectedId,
                 listReqs, alerts, uploadVars, backendVars>>
  /\ UNCHANGED modalVars

\* DELETE /documents/{id}: acknowledged when the document exists and the
\* backend accepts; rejected otherwise.
BackendDelete(k) ==
  /\ k \in 1..Len(delReqs)
  /\ delReqs[k].resp = None
  /\ \/ /\ \E j \in 1..Len(backendDocs) : backendDocs[j].id = delReqs[k].docId
        /\ backendDocs' = WithoutId(backendDocs, delReqs[k].docId)
        /\ delReqs' = ReplaceAt(delReqs, k,
                                [delReqs[k] EXCEPT !.resp = [kind |-> "ok"]])
     \/ /\ delReqs' = ReplaceAt(delReqs, k,
                                [delReqs[k] EXCEPT !.resp = [kind |-> "err"]])
        /\ UNCHANGED backendDocs
  /\ UNCHANGED <<appVars, storeVars, chatVars, listVars, alerts, uploadVars,
                 nextId>>
  /\ UNCHANGED modalVars

DocsAfterDeleteOptimistic(d, req) ==
  IF req.live THEN WithoutId(d, req.docId) ELSE d

\* setDocs(d => d.filter(doc => doc.id !== docId)) in the try block, after
\* the await: only an acknowledged delete filters the listing.
DocsAfterDelete(d, req) ==
  IF req.resp.kind = "ok" /\ req.live THEN WithoutId(d, req.docId) ELSE d

\* handleDelete after the await.
DeleteResolve(k) ==
  /\ k \in 1..Len(delReqs)
  /\ delReqs[k].resp # None
  /\ delReqs' = RemoveAt(delReqs, k)
  /\ docs' = DocsAfterDelete(docs, delReqs[k])
  /\ IF delReqs[k].resp.kind = "ok"
     THEN /\ IF delReqs[k].selectedId = delReqs[k].docId
             THEN /\ selectedId' = IF delReqs[k].live THEN Null
                                   ELSE selectedId
                  /\ selectedDoc' = NullDoc
                  /\ RenderChatInterface(activeTab, NullDoc)
             ELSE UNCHANGED <<selectedId, selectedDoc, chatVars>>
          /\ UNCHANGED alerts
     ELSE /\ alerts' = alerts + 1
          /\ UNCHANGED <<selectedId, selectedDoc, chatVars>>
  /\ UNCHANGED <<activeTab, refreshTrigger, storeVars, docsLoading, listReqs,
                 uploadVars, backendVars>>
  /\ UNCHANGED modalVars

\* -------------------------------------------------------- ChatInterface -
UserMsg(text) == [sender |-> "user", text |-> text]

\* The citations of a response, last page first.
Reversed(pages) == [j \in 1..Len(pages) |-> pages[Len(pages) + 1 - j]]

AnswerMsgCitationsReversed(response) ==
  [sender |-> "assistant", text |-> response.answer,
   citations |-> Reversed(response.citations), chunks |-> response.chunks]

\* { sender: 'assistant', text: response.answer,
\*   citations: response.citations, chunks: response.chunks }
AnswerMsg(response) ==
  [sender |-> "assistant", text |-> response.answer,
   citations |-> response.citations, chunks |-> response.chunks]

ErrorMsgMessageOnly(error) ==
  IF error.message # <<>> THEN error.message ELSE <<"Unknown error">>

\* error.response?.data?.detail || error.message || 'Unknown error'
ErrorMsg(error) ==
  IF error.detail # <<>> THEN error.detail
  ELSE IF error.message # <<>> THEN error.message
  ELSE <<"Unknown error">>

ErrorReply(error) ==
  [sender |-> "assistant", text |-> <<"Error: ">> \o ErrorMsg(error)]

QueryAnswers ==
  {[kind |-> "ok", answer |-> <<"$4.2M">>, citations |-> <<3, 7>>,
    chunks |-> <<"c1">>]}

QueryErrors ==
  {[kind |-> "err", detail |-> <<"Invalid API key">>,
    message |-> <<"Request failed with status code 500">>],
   [kind |-> "err", detail |-> <<>>, message |-> <<"Network Error">>],
   [kind |-> "err", detail |-> <<>>, message |-> <<>>]}

SyntaxError == [kind |-> "err", detail |-> <<>>,
                message |-> <<"Unexpected token">>]

\* The question box is rendered for a selected document and is disabled
\* while a query is pending.
TypeInput(text) ==
  /\ ChatMounted(activeTab, selectedDoc)
  /\ selectedDoc # NullDoc
  /\ ~loading
  /\ Len(messages) < MaxMessages
  /\ text \in Inputs
  /\ text # input
  /\ input' = text
  /\ UNCHANGED <<appVars, storeVars, messages, loading, queryReqs, listVars,
                 deleteVars, uploadVars, backendVars>>
  /\ UNCHANGED modalVars

SendRejectedPendingOnly(text, pending) == pending

\* if (!input.trim() || loading) return;
SendRejected(text, pending) == Trim(text) = <<>> \/ pending

EchoDeferred(prev, userMsg) == prev

\* setMessages(prev => [...prev, userMsg]), before the try block.
Echo(prev, userMsg) == Append(prev, userMsg)

SnapshotSettingsNone(item) == NullSettings

\* const saved = localStorage.getItem('apiSettings');
\* const apiSettings = saved ? JSON.parse(saved) : null;
SnapshotSettings(item) ==
  IF item # Absent THEN JSONparse(item) ELSE NullSettings

\* handleSend up to the await: the echo, setLoading(pending), then either
\* the request or, when JSON.parse throws, the catch and finally blocks in
\* the same run.
HandleSendSteps(pending) ==
  /\ ChatMounted(activeTab, selectedDoc)
  /\ selectedDoc # NullDoc
  /\ ~SendRejected(input, loading)
  /\ input' = <<>>
  /\ IF lsSettings # Absent /\ ParseThrows(lsSettings)
     THEN /\ messages' = Append(Echo(messages, UserMsg(input)),
                                ErrorReply(SyntaxError))
          /\ loading' = FALSE
          /\ UNCHANGED queryReqs
     ELSE /\ messages' = Echo(messages, UserMsg(input))
          /\ loading' = pending
          /\ queryReqs' = Append(queryReqs,
               queryDocument(input, selectedDoc.id, Null,
                             SnapshotSettings(lsSettings)))
  /\ UNCHANGED <<appVars, storeVars, listVars, deleteVars, uploadVars,
                 backendVars>>
  /\ UNCHANGED modalVars

HandleSendNoPending == HandleSendSteps(FALSE)

\* setLoading(true)
HandleSend == HandleSendSteps(TRUE)

ReplySilentError(response) ==
  IF response.kind = "ok" THEN <<AnswerMsg(response)>> ELSE <<>>

\* What the continuation appends: the answer in the try block, the error
\* reply in the catch block.
Reply(response) ==
  IF response.kind = "ok" THEN <<AnswerMsg(response)>>
  ELSE <<ErrorReply(response)>>

PendingAfterResolveNoFinally(response) == response.kind # "ok"

\* finally { setLoading(false) }
PendingAfterResolve(response) == FALSE

\* handleSend after the await: the answer or the catch, then finally.
QueryResolve(k, response) ==
  /\ k \in 1..Len(queryReqs)
  /\ response \in QueryAnswers \cup QueryErrors
  /\ queryReqs' = RemoveAt(queryReqs, k)
  /\ messages' = messages \o Reply(response)
  /\ loading' = PendingAfterResolve(response)
  /\ UNCHANGED <<appVars, storeVars, input, listVars, deleteVars, uploadVars,
                 backendVars>>
  /\ UNCHANGED modalVars

\* -------------------------------------------------------- DocumentUpload -
\* The batches that can be dropped: N distinct files, N = 0 .. MaxFiles.
Batches == {SubSeq(FileNames, 1, n) : n \in 0..MaxFiles}

\* A batch whose progress reset has run: nothing of it can act any more.
DoneBatch == [files |-> <<>>, i |-> 1, live |-> FALSE, outcomes |-> <<>>,
              pc |-> "done"]

UploadErrors ==
  {[kind |-> "err", detail |-> <<"file too large">>,
    message |-> <<"Request failed with status code 413">>],
   [kind |-> "err", detail |-> <<>>, message |-> <<"Network Error">>]}

\* files.map(f => ({ name: f.name, status: 'uploading' }))
NewProgress(files) ==
  [j \in 1..Len(files) |-> [name |-> files[j], status |-> "uploading"]]

\* { ...p, status: 'success', id: result.id }
TaskSuccess(p, result) == [status |-> "success", id |-> result.id] @@ p

\* { ...p, status: 'error', error: error.message }
TaskError(p, error) == [status |-> "error", error |-> error.message] @@ p

SettleTaskOkOnly(prev, i, resp) ==
  [idx \in 1..Len(prev) |->
     IF idx = i /\ resp.kind = "ok" THEN TaskSuccess(prev[idx], resp.data)
     ELSE prev[idx]]

\* prev.map((p, idx) => idx === i ? ... : p), in the try block for a
\* result and in the catch block for an error.
SettleTask(prev, i, resp) ==
  [idx \in 1..Len(prev) |->
     IF idx # i THEN prev[idx]
     ELSE IF resp.kind = "ok" THEN TaskSuccess(prev[idx], resp.data)
     ELSE TaskError(prev[idx], resp)]

\* The number of files of the batches of bs.
RECURSIVE Dropped(_)
Dropped(bs) ==
  IF bs = <<>> THEN 0 ELSE Len(Head(bs).files) + Dropped(Tail(bs))

UploadCall(b, i) == [b |-> b, i |-> i, resp |-> None]

FirstCallsParallel(b, files) == [j \in 1..Len(files) |-> UploadCall(b, j)]

\* The loop awaits each uploadDocument call: entering it issues the call
\* for the first file only.
FirstCalls(b, files) ==
  IF files = <<>> THEN <<>> ELSE <<UploadCall(b, 1)>>

LoopStopsOnError(files, i, resp) == i < Len(files) /\ resp.kind = "ok"

\* for (let i = 0; i < files.length; i++) with try / catch inside the
\* body: after file i, whatever its outcome, the loop goes on while a file
\* is left.
LoopContinues(files, i, resp) == i < Len(files)

\* onDrop(files) up to the first await.  react-dropzone calls it with the
\* accepted files, possibly none; the loop index i is 1-based here.  A batch
\* is the state of one running onDrop call: its files, its loop index,
\* whether its component instance is still mounted, and the outcome of each
\* file settled so far (the document id, or Null for a failure).
OnDrop(files) ==
  /\ UploadMounted(activeTab)
  /\ Len(batches) < MaxBatches
  /\ files \in Batches
  /\ Dropped(batches) + Len(files) <= MaxDropped
  /\ progress' = NewProgress(files)
  /\ progressOwner' = Len(batches) + 1
  /\ uploading' = (files # <<>>)
  /\ upReqs' = upReqs \o FirstCalls(Len(batches) + 1, files)
  /\ batches' = Append(batches,
       [files |-> files, i |-> 1, live |-> TRUE, outcomes |-> <<>>,
        pc |-> IF files # <<>> THEN "await" ELSE "timer"])
  /\ UNCHANGED <<appVars, storeVars, chatVars, listVars, deleteVars,
                 backendVars>>
  /\ UNCHANGED modalVars

\* POST /upload: on success the backend stores the document under a fresh
\* id and answers with it.
BackendUpload(k) ==
  /\ k \in 1..Len(upReqs)
  /\ upReqs[k].resp = None
  /\ LET file == batches[upReqs[k].b].files[upReqs[k].i]
     IN  \/ /\ backendDocs' = Append(backendDocs, Doc(nextId, file))
            /\ nextId' = nextId + 1
            /\ upReqs' = ReplaceAt(upReqs, k,
                 [upReqs[k] EXCEPT !.resp = [kind |-> "ok",
                                             data |-> Doc(nextId, file)]])
         \/ /\ \E e \in UploadErrors :
                 upReqs' = ReplaceAt(upReqs, k, [upReqs[k] EXCEPT !.resp = e])
            /\ UNCHANGED backendVars
  /\ UNCHANGED <<appVars, storeVars, chatVars, listVars, deleteVars,
                 uploading, progress, progressOwner, batches>>
  /\ UNCHANGED modalVars

ReportedAlways(resp) == TRUE

\* onUploadSuccess?.(result) is called in the try block, after the await:
\* for a result only.
Reported(resp) == resp.kind = "ok"

\* App.handleUploadSuccess: setRefreshTrigger(prev => prev + 1)
handleUploadSuccess(trigger) == trigger + 1

\* onDrop after an await: the task of index i is settled, a success is
\* reported, and the loop goes on to the next file or ends the batch by
\* setUploading(false) and the 3 s timer.
UploadResolve(k) ==
  LET r     == upReqs[k]
      batch == batches[r.b]
      ok    == r.resp.kind = "ok"
      more  == LoopContinues(batch.files, r.i, r.resp)
      trig  == IF Reported(r.resp) /\ activeTab \in Tabs
               THEN handleUploadSuccess(refreshTrigger)
               ELSE refreshTrigger
  IN
  /\ k \in 1..Len(upReqs)
  /\ r.resp # None
  /\ progress' = IF batch.live THEN SettleTask(progress, r.i, r.resp)
                 ELSE progress
  /\ refreshTrigger' = trig
  /\ RenderDocumentList(activeTab, trig)
  /\ uploading' = IF batch.live /\ ~more THEN FALSE ELSE uploading
  /\ upReqs' = RemoveAt(upReqs, k) \o
               (IF more THEN <<UploadCall(r.b, r.i + 1)>> ELSE <<>>)
  /\ batches' = ReplaceAt(batches, r.b,
       [batch EXCEPT !.i = r.i + 1,
                     !.outcomes = Append(@, IF ok THEN r.resp.data.id
                                            ELSE Null),
                     !.pc = IF more THEN "await" ELSE "timer"])
  /\ UNCHANGED <<activeTab, selectedDoc, storeVars, chatVars, alerts,
                 progressOwner, backendVars>>
  /\ UNCHANGED modalVars

\* setTimeout(() => setProgress([]), 3000)
ProgressReset(b) ==
  /\ b \in 1..Len(batches)
  /\ batches[b].pc = "timer"
  /\ batches' = ReplaceAt(batches, b, DoneBatch)
  /\ IF batches[b].live
     THEN progress' = <<>> /\ progressOwner' = Null
     ELSE UNCHANGED <<progress, progressOwner>>
  /\ UNCHANGED <<appVars, storeVars, chatVars, listVars, deleteVars,
                 uploading, upReqs, backendVars>>
  /\ UNCHANGED modalVars

\* ----------------------------------------------------- specifications ---
NextApp == \E tab \in Tabs : SetActiveTab(tab)

NextList ==
  \/ \E k \in 1..MaxInFlight : BackendList(k)
  \/ \E k \in 1..MaxInFlight : LoadDocsResolve(k)
  \/ \E k \in 1..MaxInitDocs + MaxBatches * MaxFiles : HandleSelect(k)

NextListFail == \E k \in 1..MaxInFlight : BackendListFail(k)

NextDelete ==
  \/ \E k \in 1..MaxInitDocs + MaxBatches * MaxFiles : HandleDelete(k)
  \/ \E k \in 1..MaxInFlight : BackendDelete(k)
  \/ \E k \in 1..MaxInFlight : DeleteResolve(k)

NextChat ==
  \/ \E text \in Inputs : TypeInput(text)
  \/ HandleSend
  \/ \E k \in 1..MaxInFlight, r \in QueryAnswers \cup QueryErrors :
       QueryResolve(k, r)

NextUpload ==
  \/ \E files \in Batches : OnDrop(files)
  \/ \E k \in 1..MaxBatches : BackendUpload(k)
  \/ \E k \in 1..MaxBatches : UploadResolve(k)
  \/ \E b \in 1..MaxBatches : ProgressReset(b)

NextSettings ==
  \/ OpenSettings
  \/ CloseSettings
  \/ \E text \in FieldTexts("u") : SetApiBaseUrl(text)
  \/ \E text \in FieldTexts("k") : SetApiKey(text)
  \/ \E text \in FieldTexts("m") : SetModel(text)
  \/ HandleSave
  \/ HandleClear
  \/ CloseTimer

NextStore == \E item \in ExternalItems : StorageWritten(item)

Next ==
  \/ NextApp \/ NextList \/ NextListFail \/ NextDelete \/ NextChat
  \/ NextUpload \/ NextSettings \/ NextStore

Spec == Init /\ [][Next]_vars

\* The chat session with the shell and the registry listing around it, on
\* a backend that holds MaxInitDocs documents.
InitChat == Init /\ Len(backendDocs) = MaxInitDocs

NextChatSession == NextApp \/ NextList \/ NextChat \/ NextStore

SpecChat == InitChat /\ [][NextChatSession]_vars

\* The upload coordinator with the shell, on an empty backend.  No action
\* of it reads the persisted settings or a list response.
InitUpload == Init /\ lsSettings = Absent /\ backendDocs = <<>>

NextCoordinator == NextApp \/ NextUpload

SpecCoordinator == InitUpload /\ [][NextCoordinator]_vars

\* The upload coordinator with the shell and a registry whose list fetches
\* succeed.
NextUploadBatch == NextApp \/ NextList \/ NextUpload

SpecUpload == InitUpload /\ [][NextUploadBatch]_vars

\* The registry with the shell.
InitRegistry == Init /\ lsSettings = Absent

NextRegistry == NextApp \/ NextList \/ NextListFail \/ NextDelete

SpecRegistry == InitRegistry /\ [][NextRegistry]_vars

\* The registry during one background upload: a file is dropped on the
\* Upload tab, the user goes back to the Documents tab, and deletes one
\* document at a time while the upload and the list fetches resolve.
InitRefresh == Init /\ lsSettings = Absent /\ Len(backendDocs) = 1

NextRefresh ==
  \/ \E tab \in {"upload", "documents"} : SetActiveTab(tab)
  \/ \E k \in 1..MaxInFlight : BackendList(k)
  \/ \E k \in 1..MaxInFlight : LoadDocsResolve(k)
  \/ \E k \in 1..MaxInitDocs : delReqs = <<>> /\ HandleDelete(k)
  \/ BackendDelete(1)
  \/ DeleteResolve(1)
  \/ batches = <<>> /\ OnDrop(<<"a.pdf">>)
  \/ BackendUpload(1)
  \/ UploadResolve(1)

SpecRefresh == InitRefresh /\ [][NextRefresh]_vars

\* The same scenario with the user staying on the tab while a delete call
\* is in flight: every delete call is settled in the list instance that
\* issued it.
NextRefreshSettled ==
  \/ \E tab \in {"upload", "documents"} : delReqs = <<>> /\ SetActiveTab(tab)
  \/ \E k \in 1..MaxInFlight : BackendList(k)
  \/ \E k \in 1..MaxInFlight : LoadDocsResolve(k)
  \/ \E k \in 1..MaxInitDocs : delReqs = <<>> /\ HandleDelete(k)
  \/ BackendDelete(1)
  \/ DeleteResolve(1)
  \/ batches = <<>> /\ OnDrop(<<"a.pdf">>)
  \/ BackendUpload(1)
  \/ UploadResolve(1)

SpecRefreshSettled == InitRefresh /\ [][NextRefreshSettled]_vars

\* The scenario of SpecRefresh with list fetches that can fail.
NextRefreshFail == NextRefresh \/ NextListFail

SpecRefreshFail == InitRefresh /\ [][NextRefreshFail]_vars

\* The settings modal with the stored item.
InitStore == Init /\ backendDocs = <<>>

NextSettingsStore == NextSettings \/ NextStore

SpecStore == InitStore /\ [][NextSettingsStore]_vars

\* The settings modal and the stored item with a chat session, on a
\* backend that holds one document: the user types each override or leaves
\* it empty, asks the question "a", and every query is answered.
InitSettings == Init /\ Len(backendDocs) = 1

FieldValues(v) == {<<>>, <<" ", v>>}

NextOverrides ==
  \/ OpenSettings
  \/ CloseSettings
  \/ \E text \in FieldValues("u") : SetApiBaseUrl(text)
  \/ \E text \in FieldValues("k") : SetApiKey(text)
  \/ \E text \in FieldValues("m") : SetModel(text)
  \/ HandleSave
  \/ HandleClear
  \/ CloseTimer

NextAsk ==
  \/ TypeInput(<<"a">>)
  \/ HandleSend
  \/ \E r \in QueryAnswers : QueryResolve(1, r)

NextSettingsChat == NextList \/ NextAsk \/ NextOverrides \/ NextStore

SpecSettings == InitSettings /\ [][NextSettingsChat]_vars

\* ------------------------------------------------- fair specification ---
\* The backend answers every upload call, and the continuation of an await
\* runs once its promise has settled.
FairSpecCoordinator ==
  /\ SpecCoordinator
  /\ WF_vars(\E k \in 1..MaxBatches : BackendUpload(k))
  /\ WF_vars(\E k \in 1..MaxBatches : UploadResolve(k))

\* ------------------------------------------------------------- claims ---
Terminal == {"success", "error"}

IdsOf(d) == [j \in 1..Len(d) |-> d[j].id]

\* The ids of the documents a batch has created so far, in upload order.
Results(batch) ==
  LET IsId(x) == x # Null
  IN  SelectSeq(batch.outcomes, IsId)

\* C1: in every reachable state of a ChatSession at most one query request
\* is in flight (issued and not yet resolved).
C1_SingleFlight == Len(queryReqs) <= 1

\* A second question is in flight after the first one was answered.
C1_Witness == Len(queryReqs) = 1 /\ Len(messages) = 3

\* C2: a submit with an empty or whitespace-only question, or while pending,
\* is a no-op: no step taken from such a state issues a query request or
\* appends a user message; with a blank question and nothing pending the
\* messages and the pending flag stay as they are, and while pending the
\* input stays as it is.
C2_RejectedSubmitIsNoOp ==
  [][(Trim(input) = <<>> \/ loading) =>
       /\ Len(queryReqs') <= Len(queryReqs)
       /\ \A j \in 1..Len(messages') :
            j > Len(messages) => messages'[j].sender # "user"
       /\ ~loading => (messages' = messages /\ loading' = loading)
       /\ loading => input' = input]_vars

\* A whitespace-only question is in the box of a session that has already
\* accepted a question and received its answer.
C2_Witness ==
  /\ input = <<" ">>
  /\ selectedDoc # NullDoc
  /\ ~loading
  /\ Len(messages) = 2

\* C3: every accepted submit, once its query has resolved, has added exactly
\* two messages, a user message followed by an assistant message: the
\* sequence alternates user / assistant, and its length is even when no
\* query is pending and odd while one is.
C3_AppendLaw ==
  /\ Len(messages) % 2 = (IF loading THEN 1 ELSE 0)
  /\ \A j \in 1..Len(messages) :
       messages[j].sender = (IF j % 2 = 1 THEN "user" ELSE "assistant")

\* Two submits have resolved, the first with a failure and the second with
\* an answer.
C3_Witness ==
  /\ ~loading
  /\ Len(messages) = 4
  /\ messages[2].text = <<"Error: ", "Network Error">>
  /\ messages[4].text = <<"$4.2M">>

\* C4: pending is cleared in both outcomes: the session is pending only
\* while its query call is unresolved, so a resolved call (or a failure
\* raised before the request is sent) leaves pending = false.
C4_PendingCleared == loading => Len(queryReqs) = 1

\* A submit failed before its request was sent and the session is idle.
C4_Witness ==
  /\ lsSettings = Corrupt
  /\ Len(messages) = 2
  /\ messages[2].text = <<"Error: ", "Unexpected token">>
  /\ ~loading

\* C5: within one batch the upload call for file i+1 is not issued before
\* file i has reached a terminal status, in input order: a batch has at
\* most one call in flight, that call is for the file after the ones
\* already settled, and every task of the batch before it is terminal.
C5_Sequential ==
  \A k \in 1..Len(upReqs) :
    LET r == upReqs[k]
    IN  /\ \A m \in 1..Len(upReqs) : upReqs[m].b = r.b => m = k
        /\ r.i = Len(batches[r.b].outcomes) + 1
        /\ r.i = batches[r.b].i
        /\ (progressOwner = r.b /\ batches[r.b].live) =>
             \A j \in 1..Len(progress) :
               j < r.i => progress[j].status \in Terminal

\* The call for the second file of a batch is in flight and the first task
\* is settled.
C5_Witness ==
  \E k \in 1..Len(upReqs) :
    /\ upReqs[k].i = 2
    /\ progressOwner = upReqs[k].b
    /\ Len(progress) = 2
    /\ progress[1].status = "error"
    /\ progress[2].status = "uploading"

\* The step in which the continuation of a failed upload call runs.
FailedUploadStep(k) ==
  /\ k \in 1..Len(upReqs)
  /\ upReqs[k].resp # None
  /\ upReqs[k].resp.kind = "err"
  /\ Len(batches'[upReqs[k].b].outcomes)
       = Len(batches[upReqs[k].b].outcomes) + 1

\* C6: when the upload of file i fails, only task i becomes error, the
\* other tasks are unchanged, nothing already stored is rolled back, the
\* next file is still attempted, and file i is not called again.
C6_FailureIsolation ==
  [][\A k \in 1..Len(upReqs) : FailedUploadStep(k) =>
       LET r == upReqs[k]
           b == batches[r.b]
       IN  /\ Len(progress') = Len(progress)
           /\ \A j \in 1..Len(progress) :
                j # r.i => progress'[j] = progress[j]
           /\ (b.live /\ r.i <= Len(progress)) =>
                progress'[r.i].status = "error"
           /\ backendDocs' = backendDocs
           /\ refreshTrigger' = refreshTrigger
           /\ batches'[r.b].i = r.i + 1
           /\ \A m \in 1..Len(upReqs') :
                upReqs'[m].b = r.b => upReqs'[m].i = r.i + 1
           /\ IF r.i < Len(b.files)
              THEN \E m \in 1..Len(upReqs') :
                     upReqs'[m] = UploadCall(r.b, r.i + 1)
              ELSE batches'[r.b].pc = "timer"]_vars

\* The first file of a two-file batch failed and the second succeeded.
C6_Witness ==
  /\ progressOwner # Null
  /\ Len(progress) = 2
  /\ progress[1].status = "error"
  /\ progress[2].status = "success"

\* C7: every batch eventually completes, whatever files fail, and at its
\* completion every task of the batch is in a terminal status.
C7_BatchCompletes ==
  /\ [](\A b \in 1..Len(batches) :
          (batches[b].pc = "timer" /\ batches[b].live /\ progressOwner = b)
            => \A j \in 1..Len(progress) : progress[j].status \in Terminal)
  /\ \A b \in 1..MaxBatches :
       (Len(batches) >= b) ~>
         (Len(batches) >= b /\ batches[b].pc \in {"timer", "done"})

\* A two-file batch has completed with both files failed.
C7_Witness ==
  \E b \in 1..Len(batches) :
    /\ batches[b].pc = "timer"
    /\ batches[b].live
    /\ progressOwner = b
    /\ batches[b].outcomes = <<Null, Null>>
    /\ Len(progress) = 2

\* C8: after a batch has completed and all list fetches have resolved, the
\* registry listing holds the documents the batch created, in upload order.
C8_RegistryGainsBatch ==
  \A b \in 1..Len(batches) :
    (batches[b].pc = "timer" /\ ListMounted(activeTab) /\ listReqs = <<>>) =>
      LET created   == Results(batches[b])
          IsNew(id) == \E j \in 1..Len(created) : created[j] = id
      IN  SelectSeq(IdsOf(docs), IsNew) = created

\* C9: once a task's status is success or error it never changes again
\* while the progress list it belongs to is displayed.
C9_TerminalIsFinal ==
  [][\A j \in 1..Len(progress) :
       (/\ progress[j].status \in Terminal
        /\ progressOwner' = progressOwner
        /\ j <= Len(progress'))
         => progress'[j].status = progress[j].status]_vars

\* The step in which the continuation of a rejected delete call runs.
RejectedDeleteStep(k) ==
  /\ k \in 1..Len(delReqs)
  /\ delReqs[k].resp = [kind |-> "err"]
  /\ delReqs' = RemoveAt(delReqs, k)

\* C10: when the backend rejects delete(id), the listing and the selection
\* are unchanged and the failure is surfaced by an alert.
C10_RejectedDelete ==
  [][\A k \in 1..Len(delReqs) : RejectedDeleteStep(k) =>
       /\ docs' = docs
       /\ selectedDoc' = selectedDoc
       /\ selectedId' = selectedId
       /\ alerts' = alerts + 1]_vars

\* A delete was rejected while the listing showed the document and a
\* document was selected.
C10_Witness ==
  /\ alerts = 1
  /\ Len(docs) = 1
  /\ selectedDoc # NullDoc
  /\ delReqs = <<>>

\* The step in which the continuation of an acknowledged delete call runs.
AcknowledgedDeleteStep(k) ==
  /\ k \in 1..Len(delReqs)
  /\ delReqs[k].resp = [kind |-> "ok"]
  /\ delReqs' = RemoveAt(delReqs, k)

\* C11: when the delete of the currently selected document is acknowledged,
\* the selection is cleared: after that step the application's selected
\* document is null.  The call is one of the list that is still displayed,
\* so the document was the selected one when its delete was requested.
C11_DeleteClearsSelection ==
  [][\A k \in 1..Len(delReqs) :
       (/\ AcknowledgedDeleteStep(k)
        /\ delReqs[k].live
        /\ delReqs[k].docId = selectedDoc.id)
         => selectedDoc' = NullDoc]_vars

\* The listing is displayed before and after the step.
ListStaysDisplayed == ListMounted(activeTab) /\ ListMounted(activeTab')

\* The documents of the listing that the step removes.
RemovedIds == {id \in {docs[j].id : j \in 1..Len(docs)} :
                 \A j \in 1..Len(docs') : docs'[j].id # id}

\* The step is the continuation of the acknowledged delete of id and
\* removes exactly id, the other entries keeping their order.
RemovedByAcknowledgement(id) ==
  \E k \in 1..Len(delReqs) :
    /\ AcknowledgedDeleteStep(k)
    /\ delReqs[k].docId = id
    /\ docs' = WithoutId(docs, id)

\* C12 as stated: while the listing is displayed, a document for which a
\* delete call is in flight leaves the listing only in the step that follows
\* the acknowledgement, which removes exactly that document.
C12_StaysWhileInFlight ==
  [][ListStaysDisplayed =>
       \A k \in 1..Len(delReqs) :
         (delReqs[k].live /\ delReqs[k].docId \in RemovedIds)
           => RemovedByAcknowledgement(delReqs[k].docId)]_vars

\* C12, amended: handleDelete is not optimistic.  The step that issues the
\* delete call leaves the listing as it is; while the listing is displayed
\* a document leaves it only in the step that follows the acknowledgement of
\* its delete, which removes exactly that id and keeps the order of the
\* others, or when a list response replaces the listing; and the
\* continuation of an acknowledged delete removes exactly its id.
C12_NotOptimistic ==
  [][ListStaysDisplayed =>
       /\ Len(delReqs') > Len(delReqs) => docs' = docs
       /\ \A id \in RemovedIds :
            \/ RemovedByAcknowledgement(id)
            \/ Len(listReqs') < Len(listReqs)
       /\ \A k \in 1..Len(delReqs) :
            (AcknowledgedDeleteStep(k) /\ delReqs[k].live)
              => docs' = WithoutId(docs, delReqs[k].docId)]_vars

\* The delete of the one document has been acknowledged and the document
\* has left the displayed listing, while a second document, uploaded in the
\* background, has been listed by the refresh.
C12_Witness ==
  /\ ListMounted(activeTab)
  /\ ~docsLoading
  /\ delReqs = <<>>
  /\ alerts = 0
  /\ IdsOf(backendDocs) = <<2>>
  /\ IdsOf(docs) = <<2>>

\* The step issues a query request; the request is the last of queryReqs'.
SubmitStep == Len(queryReqs') = Len(queryReqs) + 1

PayloadKeys == {"question", "doc_id", "conversation_id", "stream"}

\* The override fields a request body carries, as a settings triple.
OverridesOf(req) ==
  Settings(IF "api_base_url" \in DOMAIN req THEN req.api_base_url ELSE <<>>,
           IF "api_key" \in DOMAIN req THEN req.api_key ELSE <<>>,
           IF "model" \in DOMAIN req THEN req.model ELSE <<>>)

\* C13: for every persisted Settings record, the body of the query issued
\* by a submit has the key api_base_url / api_key / model exactly for the
\* non-empty fields, with the stored values, and no key for an empty field.
C13_SettingsMerge ==
  [][(SubmitStep /\ lsSettings.kind = "json") =>
       LET req == queryReqs'[Len(queryReqs')]
           s   == lsSettings.value
       IN  /\ ("api_base_url" \in DOMAIN req) <=> (s.apiBaseUrl # <<>>)
           /\ ("api_key" \in DOMAIN req) <=> (s.apiKey # <<>>)
           /\ ("model" \in DOMAIN req) <=> (s.model # <<>>)
           /\ OverridesOf(req) = s
           /\ \A key \in DOMAIN req : key \in PayloadKeys \/ req[key] # <<>>]_vars

\* A query is in flight that carries the endpoint and the model typed into
\* the settings view, and no api_key key, the key field having been saved
\* empty.
C13_Witness ==
  /\ Len(queryReqs) = 1
  /\ DOMAIN queryReqs[1] = PayloadKeys \cup {"api_base_url", "model"}
  /\ queryReqs[1].api_base_url = <<"u">>
  /\ queryReqs[1].model = <<"m">>
  /\ lsSettings = JSONstringify(Settings(<<"u">>, <<>>, <<"m">>))

\* The Settings a read of the stored item yields for a submit.
Persisted(item) == IF item.kind = "json" THEN item.value ELSE EmptyFields

\* C14: the overrides of a query request are those persisted when its
\* submit was accepted: a step that changes the stored settings leaves every
\* request in flight as it is, no step modifies a request in flight, and a
\* submit carries the settings stored at that moment.
C14_SnapshotAtSubmit ==
  [][/\ lsSettings' # lsSettings => queryReqs' = queryReqs
     /\ Len(queryReqs') >= Len(queryReqs) =>
          \A k \in 1..Len(queryReqs) : queryReqs'[k] = queryReqs[k]
     /\ SubmitStep =>
          OverridesOf(queryReqs'[Len(queryReqs')]) = Persisted(lsSettings)]_vars

\* A query submitted with the stored api key is still pending, unchanged,
\* after a save has replaced the record by one that holds only a model.
C14_Witness ==
  /\ Len(queryReqs) = 1
  /\ loading
  /\ OverridesOf(queryReqs[1]) = Settings(<<>>, <<"k">>, <<>>)
  /\ lsSettings = JSONstringify(Settings(<<>>, <<>>, <<"m">>))

\* The step is a run of handleSave: the saved mark appears and the fields
\* are left as typed.
SaveStep ==
  /\ settingsOpen
  /\ ~saved
  /\ saved'
  /\ <<apiBaseUrl, apiKey, model>>' = <<apiBaseUrl, apiKey, model>>

\* C15: a save whose three fields are empty after trimming deletes the
\* stored record; any other save leaves exactly the trimmed triple as the
\* stored record, whatever record was stored before.
C15_SetReplacesOrDeletes ==
  [][SaveStep =>
       LET u == Trim(apiBaseUrl)
           k == Trim(apiKey)
           m == Trim(model)
       IN  IF u = <<>> /\ k = <<>> /\ m = <<>>
           THEN lsSettings' = Absent
           ELSE /\ lsSettings'.kind = "json"
                /\ lsSettings'.value = Settings(u, k, m)]_vars

\* A save has stored the trimmed endpoint alone: the key field held only
\* whitespace and the model field was empty.
C15_Witness ==
  /\ saved
  /\ apiBaseUrl = <<" ", "u">>
  /\ apiKey = <<" ">>
  /\ model = <<>>
  /\ lsSettings = JSONstringify(Settings(<<"u">>, <<>>, <<>>))

\* The stored record is absent or unparseable.
NoUsableRecord == lsSettings.kind \in {"absent", "corrupt"}

\* The step is an accepted submit: it appends the user's message.
AcceptedSubmitStep ==
  /\ Len(messages') > Len(messages)
  /\ messages'[Len(messages) + 1].sender = "user"

\* The step is a click on the settings button: the view opens, or the
\* click takes the application down.
OpenClickStep ==
  /\ ~settingsOpen
  /\ activeTab \in Tabs
  /\ settingsOpen' \/ activeTab' = Crashed

\* C16: with the stored record absent or unparseable, an accepted submit
\* still issues its query, without overrides, and the settings view opens
\* with its three fields empty.
C16_ReadsNeverFail ==
  [][NoUsableRecord =>
       /\ AcceptedSubmitStep =>
            /\ SubmitStep
            /\ OverridesOf(queryReqs'[Len(queryReqs')]) = EmptyFields
       /\ OpenClickStep =>
            /\ settingsOpen'
            /\ <<apiBaseUrl, apiKey, model>>' = <<<<>>, <<>>, <<>>>>]_vars

\* C17: the continuation of a failed query appends exactly one message, of
\* the assistant, whose text is "Error: " followed by the backend's detail
\* when there is one, else by the failure's message when there is one, else
\* by the generic text, and which has no citations; pending is cleared and
\* the application goes on.  The same holds, after the user's message, for
\* a failure raised before the request is sent.
C17_FailedQueryReply ==
  [][/\ \A k \in 1..Len(queryReqs) : \A e \in QueryErrors :
          QueryResolve(k, e) =>
            /\ Len(messages') = Len(messages) + 1
            /\ SubSeq(messages', 1, Len(messages)) = messages
            /\ messages'[Len(messages')] =
                 [sender |-> "assistant",
                  text |-> <<"Error: ">> \o
                           (IF e.detail # <<>> THEN e.detail
                            ELSE IF e.message # <<>> THEN e.message
                            ELSE <<"Unknown error">>)]
            /\ ~loading'
            /\ activeTab' = activeTab
     /\ (AcceptedSubmitStep /\ ~SubmitStep) =>
          /\ Len(messages') = Len(messages) + 2
          /\ messages'[Len(messages')] =
               [sender |-> "assistant",
                text |-> <<"Error: ", "Unexpected token">>]
          /\ ~loading'
          /\ activeTab' = activeTab]_vars

\* Two queries have failed, the first with a detail from the backend and
\* the second with nothing to report.
C17_Witness ==
  /\ ~loading
  /\ Len(messages) = 4
  /\ messages[2] = [sender |-> "assistant",
                    text |-> <<"Error: ", "Invalid API key">>]
  /\ messages[4] = [sender |-> "assistant",
                    text |-> <<"Error: ", "Unknown error">>]

\* C18: when the backend rejects an upload with a detail, the error detail
\* of the failed task is that detail, not the message of the transport
\* exception.
C18_UploadErrorDetail ==
  [][\A k \in 1..Len(upReqs) :
       (/\ FailedUploadStep(k)
        /\ upReqs[k].resp.detail # <<>>
        /\ batches[upReqs[k].b].live
        /\ progressOwner = upReqs[k].b)
         => progress'[upReqs[k].i].error = upReqs[k].resp.detail]_vars

\* C19: in every reachable state every task has a result document id
\* exactly when its status is success and an error detail exactly when its
\* status is error.
C19_ResultIffStatus ==
  \A j \in 1..Len(progress) :
    /\ ("id" \in DOMAIN progress[j]) <=> (progress[j].status = "success")
    /\ ("error" \in DOMAIN progress[j]) <=> (progress[j].status = "error")

\* C20: a change of the selected document while a query is pending does not
\* abort the request: the step leaves the request, the messages and the
\* pending flag as they are; the request carries the doc_id of the subject
\* of its submit; and the continuation of a request whose doc_id is no
\* longer the subject's still appends one assistant message and clears
\* pending.
C20_SubjectChangeKeepsRequest ==
  [][/\ (loading /\ selectedDoc' # selectedDoc /\ selectedDoc' # NullDoc) =>
          /\ queryReqs' = queryReqs
          /\ messages' = messages
          /\ loading' = loading
     /\ SubmitStep => queryReqs'[Len(queryReqs')].doc_id = selectedDoc.id
     /\ \A k \in 1..Len(queryReqs) :
          \A r \in QueryAnswers \cup QueryErrors :
            (QueryResolve(k, r) /\ queryReqs[k].doc_id # selectedDoc.id) =>
              /\ Len(messages') = Len(messages) + 1
              /\ SubSeq(messages', 1, Len(messages)) = messages
              /\ messages'[Len(messages')].sender = "assistant"
              /\ ~loading']_vars

\* A question asked about document 1 is still pending, its request carrying
\* doc_id 1, after document 2 has been selected in the list.
C20_Witness ==
  /\ selectedDoc.id = 2
  /\ loading
  /\ Len(queryReqs) = 1
  /\ queryReqs[1].doc_id = 1
  /\ Len(messages) = 1

\* C21: the continuation of an answered query appends one assistant message
\* whose text is the backend's answer and whose citations are the backend's
\* page list, in the same order.
C21_AnswerCarried ==
  [][\A k \in 1..Len(queryReqs) : \A r \in QueryAnswers :
       QueryResolve(k, r) =>
         /\ Len(messages') = Len(messages) + 1
         /\ messages'[Len(messages')].sender = "assistant"
         /\ messages'[Len(messages')].text = r.answer
         /\ messages'[Len(messages')].citations = r.citations]_vars

\* The answer "$4.2M" with the citations 3 and 7 is the reply to the first
\* question.
C21_Witness ==
  /\ Len(messages) = 2
  /\ messages[2].sender = "assistant"
  /\ messages[2].text = <<"$4.2M">>
  /\ messages[2].citations = <<3, 7>>

\* C22: there is one message sequence per subject: a step that changes the
\* selected document from A to another document B leaves in the session no
\* message of the sequence shown for A.
C22_OneSessionPerSubject ==
  [][(/\ selectedDoc # NullDoc
      /\ selectedDoc' # NullDoc
      /\ selectedDoc'.id # selectedDoc.id) =>
       \A j \in 1..Len(messages') : \A i \in 1..Len(messages) :
         messages'[j] # messages[i]]_vars

\* C23: whenever a query request is in flight the session is pending and
\* the user message of that request is already the last of the sequence.
C23_EchoBeforeRequest ==
  \A k \in 1..Len(queryReqs) :
    /\ loading
    /\ messages # <<>>
    /\ messages[Len(messages)] = UserMsg(queryReqs[k].question)

\* The second question, typed with whitespace around it, is in flight and
\* echoed as typed.
C23_Witness ==
  /\ Len(queryReqs) = 1
  /\ queryReqs[1].question = <<" ", "a", " ">>
  /\ Len(messages) = 3
  /\ messages[3].sender = "user"

\* The session is displayed before and after the step.
SessionStaysLive ==
  /\ ChatMounted(activeTab, selectedDoc)
  /\ ChatMounted(activeTab', selectedDoc')

\* C24: every step of a live session leaves the message sequence unchanged
\* or extends it by exactly one message at the end.
C24_AppendOnly ==
  [][SessionStaysLive =>
       \/ messages' = messages
       \/ /\ Len(messages') = Len(messages) + 1
          /\ SubSeq(messages', 1, Len(messages)) = messages]_vars

\* The step in which the continuation of a settled upload call runs.
SettledUploadStep(k) ==
  /\ k \in 1..Len(upReqs)
  /\ upReqs[k].resp # None
  /\ Len(batches'[upReqs[k].b].outcomes)
       = Len(batches[upReqs[k].b].outcomes) + 1

\* C25: the refresh token is incremented by one in the continuation of each
\* successful upload, which is the upload of the next file of its batch in
\* input order and whose result is the document made from that file; it is
\* left alone in the continuation of a failed upload; and no other step
\* changes it.
C25_ReportPerSuccess ==
  [][/\ \A k \in 1..Len(upReqs) : SettledUploadStep(k) =>
          LET r == upReqs[k]
              b == batches[r.b]
          IN  /\ r.i = Len(b.outcomes) + 1
              /\ IF r.resp.kind = "ok"
                 THEN /\ refreshTrigger' = refreshTrigger + 1
                      /\ r.resp.data.name = b.files[r.i]
                      /\ batches'[r.b].outcomes[r.i] = r.resp.data.id
                 ELSE /\ refreshTrigger' = refreshTrigger
                      /\ batches'[r.b].outcomes[r.i] = Null
     /\ refreshTrigger' # refreshTrigger =>
          \E k \in 1..Len(upReqs) :
            SettledUploadStep(k) /\ upReqs[k].resp.kind = "ok"]_vars

\* A two-file batch has ended with its first file failed and its second
\* stored: one report has been made.
C25_Witness ==
  /\ refreshTrigger = 1
  /\ \E b \in 1..Len(batches) :
       /\ Len(batches[b].outcomes) = 2
       /\ batches[b].outcomes[1] = Null
       /\ batches[b].outcomes[2] # Null

\* C26: the continuation of an upload call of one batch leaves the progress
\* list alone when the list displayed is that of another batch: a response
\* of the first batch never changes a task of the second.
C26_OwnBatchOnly ==
  [][\A k \in 1..Len(upReqs) :
       (SettledUploadStep(k) /\ upReqs[k].b # progressOwner)
         => progress' = progress]_vars

\* The step in which the delayed progress reset of batch b runs.
ProgressResetStep(b) ==
  /\ b \in 1..Len(batches)
  /\ batches[b].pc = "timer"
  /\ batches'[b] = DoneBatch

\* C27: the delayed progress reset of a batch leaves the progress list
\* alone when the list displayed is that of a later batch which is still
\* uploading.
C27_ResetOwnProgressOnly ==
  [][\A b \in 1..Len(batches) :
       (/\ ProgressResetStep(b)
        /\ progressOwner \in (b + 1)..Len(batches)
        /\ batches[progressOwner].pc = "await")
         => progress' = progress]_vars

\* No list fetch and no upload call is in flight and the listing is
\* displayed.
ListQuiescent ==
  ListMounted(activeTab) /\ listReqs = <<>> /\ upReqs = <<>>

\* C28: once all fetches have resolved, the registry listing is the result
\* of the last-issued fetch.  Every change of the backend's documents is
\* reported by an increment of the refresh token, which issues a fetch, so
\* the last-issued fetch is answered with the backend's final documents:
\* when nothing is in flight the displayed listing equals them.
C28_LastFetchWins == ListQuiescent => docs = backendDocs

\* The ids the step adds to the listing.
AddedIds == {id \in {docs'[j].id : j \in 1..Len(docs')} :
               \A j \in 1..Len(docs) : docs[j].id # id}

\* C29: while the listing is displayed no step puts back a deleted
\* document: an id that a step adds to the listing is the id of a document
\* the backend holds, or one whose delete call has not been settled yet.
\* Every delete call being settled in the list instance that issued it, and
\* a list instance dropping its fetches when it is hidden, any other id was
\* removed from this listing by the continuation of its acknowledged delete.
C29_NoReinstatement ==
  [][ListStaysDisplayed =>
       \A id \in AddedIds :
         \/ \E j \in 1..Len(backendDocs) : backendDocs[j].id = id
         \/ \E k \in 1..Len(delReqs) : delReqs[k].docId = id]_vars

\* The application's selected document is one the backend holds, or one
\* whose delete call has not been settled yet.
SelectionExists ==
  selectedDoc # NullDoc =>
    \/ \E j \in 1..Len(backendDocs) : backendDocs[j].id = selectedDoc.id
    \/ \E k \in 1..Len(delReqs) : delReqs[k].docId = selectedDoc.id

\* The displayed list's own record of the selection is the application's.
SelectionAgrees ==
  ListMounted(activeTab) =>
    selectedId = (IF selectedDoc = NullDoc THEN Null ELSE selectedDoc.id)

\* C30: the application's selected document is never a document whose
\* deletion has been acknowledged, and the displayed list's record of the
\* selection equals the application's selection.
C30_SelectionConsistent == SelectionExists /\ SelectionAgrees

\* The step opens the settings view.
ViewOpensStep == ~settingsOpen /\ settingsOpen'

\* C31: every time the settings view is opened its three fields are those
\* of the persisted record, or are all empty when no record is persisted:
\* nothing typed and abandoned in an earlier opening is shown.
C31_OpensOnPersisted ==
  [][ViewOpensStep =>
       Settings(apiBaseUrl', apiKey', model') =
         (IF lsSettings = Absent THEN EmptyFields
          ELSE JSONparse(lsSettings))]_vars

\* C32: the continuation of a failed list fetch leaves the listing as it
\* was, clears the loading flag and surfaces nothing (no alert, the
\* application goes on with the same tab and selection); and in a displayed
\* list the loading flag is false whenever no list fetch is in flight.
C32_FailedFetchKeepsListing ==
  /\ [][\A k \in 1..Len(listReqs) :
          (listReqs[k].resp = [kind |-> "err"] /\ LoadDocsResolve(k)) =>
            /\ docs' = docs
            /\ ~docsLoading'
            /\ alerts' = alerts
            /\ activeTab' = activeTab
            /\ selectedDoc' = selectedDoc]_vars
  /\ []((ListMounted(activeTab) /\ listReqs = <<>>) => ~docsLoading)

\* The one fetch of a displayed list has failed: nothing was ever uploaded
\* or deleted, the backend holds a document, and the list shows its initial
\* empty listing with the loading flag cleared.
C32_Witness ==
  /\ ListMounted(activeTab)
  /\ listReqs = <<>>
  /\ ~docsLoading
  /\ docs = <<>>
  /\ IdsOf(backendDocs) = <<1>>
  /\ batches = <<>>
  /\ delReqs = <<>>

====
